---- MODULE Spec2Model ----
(***************************************************************************)
(* The webview <-> extension message bridge of vscode-plugin-new-project.  *)
(*                                                                         *)
(* Webview side  : webview-ui/src/utilities/vscode.ts (VSCodeAPIWrapper)   *)
(* Extension side: src/panels/CreateProjectPanel.ts (CreateProjectPanel)   *)
(*                                                                         *)
(* JavaScript values are written as TLA+ strings.  A JavaScript string is  *)
(* the same TLA+ string; every other value is a string that starts with    *)
(* "#" ("#undefined", "#null", "#0", "#false", an object literal).         *)
(***************************************************************************)
EXTENDS Integers, Sequences, FiniteSets, TLC

\* ------------------------------------------------------------------ bounds
\* requests during one behaviour: messages the pages post, and promises one
\* page creates
MaxRequests == 2
\* webview panels created during one behaviour
MaxPanels == 2
\* map.set calls and dispatches when the registry is built from any registrations
MaxRegistrations == 3
MaxDispatches == 2

\* ------------------------------------------------------- JavaScript values
Undefined == "#undefined"
Null == "#null"
Zero == "#0"
False == "#false"
EmptyString == ""

\* ToBoolean: what  if (x)  and  !x  test
Truthy(v) == v \notin {Undefined, Null, Zero, False, EmptyString}

\* the CreateProjectData object the page sends, and its location field
ProjectA == "#{packageManager:'pnpm',command:'vite',location:'/work/a',flags:[]}"
Projects == {ProjectA}
Location(data) == IF data = ProjectA THEN "/work/a" ELSE Undefined

\* what a caller asks for: <<command, whether args is given, args, default>>
Requests ==
    {<<"hello", TRUE, <<"hi">>, "fallback">>,
     <<"hello", FALSE, <<>>, Undefined>>,
     <<"selectPath", TRUE, <<"hi">>, Null>>,
     <<"createProject", TRUE, <<ProjectA>>, Undefined>>,
     <<"createProject", TRUE, <<>>, Zero>>,
     <<"nope", TRUE, <<>>, EmptyString>>}
\* what the page posts directly, without awaiting an answer
PostRequests == {r \in Requests : r[1] \in {"selectPath", "nope"} \/ r[3] = <<ProjectA>>}
\* the values Date.now() and Math.random() are drawn from
Clock == 0..1
RandomValues == {1, 2}
Keys == {"theme", "lang"}
StateValues == {"dark", Zero, EmptyString, False, Null}
\* what window.showOpenDialog can resolve to: undefined, or [uri] with this path
DialogPaths == {"/c:/work"}
Answers == {"Yes", "No", Undefined}

\* ---------------------------------------------------------------- messages
\* a message object: data absent is hasData = FALSE, callback absent is
\* Undefined.  req is the serial number of the request a message belongs to
\* (0 for the extension's own 'hello'); the program never reads it.
Message(command, hasData, data, callback, req) ==
    [command |-> command, hasData |-> hasData, data |-> data,
     callback |-> callback, req |-> req]

\* JSON.stringify / JSON.parse of one array element: undefined becomes null
JsonElement(v) == IF v = Undefined THEN Null ELSE v

\* the transport carries a message as JSON: a key whose value is undefined is
\* dropped, an undefined array element arrives as null
JsonMessage(m) ==
    [m EXCEPT !.data = [i \in 1..Len(m.data) |-> JsonElement(m.data[i])]]

\* -------------------------------------------------------------------- state
VARIABLES
    \* the page (webview-ui)
    loaded,            \* the page's script has run: the wrapper singleton exists
    acquireVsCodeApi,  \* typeof acquireVsCodeApi === 'function'
    vsCodeApi,         \* VSCodeAPIWrapper.vsCodeApi is set
    calls,             \* the promises the wrapper has returned, in call order
    listeners,         \* calls whose 'message' listener is attached to window
    consoleLog,        \* what console.log has written
    localStorage,      \* window.localStorage: key -> text, Null when absent
    sent,              \* number of vscode.postMessage calls so far
    now,               \* the latest Date.now() sample: the clock never runs back
    \* the transport
    toHost,            \* messages the page posted, not yet received by the host
    toWebview,         \* messages the host posted, not yet received by the page
    \* the extension host
    currentPanel,      \* CreateProjectPanel.currentPanel: 0 is undefined
    panels,            \* every CreateProjectPanel constructed so far
    jobs,              \* one entry per run of the onDidReceiveMessage callback
    removed,           \* the locations createProject has removed, in order
    terminals,         \* jobs whose 'Create Project' terminal is open
    registry,          \* the Map of _setWebviewMessageListener: command -> handler
    registered,        \* the map.set calls made so far, in order
    dispatched         \* the lookups made for a registry built from any registrations

pageVars == <<loaded, acquireVsCodeApi, vsCodeApi, calls, listeners,
              consoleLog, localStorage, sent>>
regVars == <<registry, registered, dispatched>>
hostVars == <<currentPanel, panels, jobs, removed, terminals, regVars>>
vars == <<loaded, acquireVsCodeApi, vsCodeApi, calls, listeners, consoleLog,
          localStorage, sent, now, toHost, toWebview, currentPanel, panels,
          jobs, removed, terminals, registry, registered, dispatched>>

\* ------------------------------------------------------------ the page side
\* const id = Date.now() + '_' + Math.random()
Token(clock, random) == ToString(clock) \o "_0." \o ToString(random)

\* a promise returned by invoke / getState / setState
Call(command, hasArgs, args, default, token, req, status, value) ==
    [command |-> command, hasArgs |-> hasArgs, args |-> args,
     default |-> default, token |-> token, req |-> req, status |-> status,
     value |-> value]

\* VSCodeAPIWrapper.postMessage
PostMessage(message) ==
    /\ sent' = sent + 1
    /\ IF vsCodeApi
       THEN /\ toHost' = Append(toHost, message)
            /\ UNCHANGED consoleLog
       ELSE /\ consoleLog' = Append(consoleLog, message)
            /\ UNCHANGED toHost

\* a slip in invoke: the test for the missing host channel is left out
NoHostChannelUnchecked == FALSE

\* invoke: the test that takes the degraded path
NoHostChannel == ~acquireVsCodeApi

\* a slip in the listener: it takes every message for its response
ListenerMatchesAny(data, id) == TRUE

\* invoke: the listener's test  data.command === id
ListenerMatches(data, id) == data.command = id

\* VSCodeAPIWrapper.invoke
invoke(command, hasArgs, args, default, clock, random) ==
    IF NoHostChannel
    THEN /\ calls' = Append(calls, Call(command, hasArgs, args, default,
                                        Undefined, 0, "resolved", default))
         /\ UNCHANGED <<listeners, sent, toHost, consoleLog, now>>
    ELSE LET id == Token(clock, random) IN
         /\ now' = clock
         /\ calls' = Append(calls, Call(command, hasArgs, args, default, id,
                                        sent + 1, "pending", Undefined))
         /\ listeners' = listeners \cup {Len(calls) + 1}
         /\ PostMessage(Message(command, hasArgs, args, id, sent + 1))

CanCall == loaded /\ Len(calls) < MaxRequests /\ sent < MaxRequests

CallInvoke(command, hasArgs, args, default, clock, random) ==
    /\ CanCall /\ clock >= now
    /\ invoke(command, hasArgs, args, default, clock, random)
    /\ UNCHANGED <<loaded, acquireVsCodeApi, vsCodeApi, localStorage,
                   toWebview, hostVars>>

\* a direct vscode.postMessage({command, data}) by the page, optionally with a
\* callback field of the caller's own
PagePostMessage(command, hasArgs, args, callback) ==
    /\ loaded /\ sent < MaxRequests
    /\ PostMessage(Message(command, hasArgs, args, callback, sent + 1))
    /\ UNCHANGED <<loaded, acquireVsCodeApi, vsCodeApi, calls, listeners,
                   localStorage, now, toWebview, hostVars>>

\* the first element of a message's data array (undefined when it is empty)
DataHead(m) == IF Len(m.data) >= 1 THEN m.data[1] ELSE Undefined

\* invoke's listener, run for call i on the message event  data
Listener(i, data) ==
    IF data.hasData /\ ListenerMatches(data, calls[i].token)
    THEN [calls[i] EXCEPT !.status = "resolved", !.value = DataHead(data)]
    ELSE calls[i]

\* a slip in the listener: removeEventListener is left out
ListenerNeverRemoved(i, data) == TRUE

\* the listener removes itself in the same branch that resolves the promise
ListenerStays(i, data) == ~(data.hasData /\ ListenerMatches(data, calls[i].token))

\* the window dispatches one 'message' event to every attached listener
OnMessage ==
    /\ loaded /\ toWebview # <<>>
    /\ LET data == JsonMessage(Head(toWebview)) IN
       /\ calls' = [i \in 1..Len(calls) |->
                       IF i \in listeners THEN Listener(i, data) ELSE calls[i]]
       /\ listeners' = {i \in listeners : ListenerStays(i, data)}
    /\ toWebview' = Tail(toWebview)
    /\ UNCHANGED <<loaded, acquireVsCodeApi, vsCodeApi, consoleLog, localStorage,
                   sent, now, toHost, hostVars>>

\* JSON.stringify(value) for the values the page stores
NonStrings == {Undefined, Null, Zero, False} \cup Projects

\* a slip in setState: the value is stored as String(value), not as JSON
StringOf(v) ==
    CASE v = Undefined -> "undefined"
      [] v = Null -> "null"
      [] v = Zero -> "0"
      [] v = False -> "false"
      [] v \in Projects -> "[object Object]"
      [] OTHER -> v

JsonStringify(v) ==
    CASE v = Undefined -> Undefined
      [] v = Null -> "null"
      [] v = Zero -> "0"
      [] v = False -> "false"
      [] v \in Projects -> "{\"location\":\"/work/a\"}"
      [] OTHER -> "\"" \o v \o "\""

\* JSON.parse(text); "#SyntaxError" stands for the exception it throws
JsonParse(text) ==
    CASE text = "null" -> Null
      [] text = "0" -> Zero
      [] text = "false" -> False
      [] text = "{\"location\":\"/work/a\"}" -> ProjectA
      [] \E v \in StateValues \ NonStrings : text = "\"" \o v \o "\"" ->
            CHOOSE v \in StateValues \ NonStrings : text = "\"" \o v \o "\""
      [] OTHER -> "#SyntaxError"

\* localStorage.setItem(key, value) stores String(value)
SetItem(key, value) ==
    [localStorage EXCEPT ![key] = IF value = Undefined THEN "undefined" ELSE value]

\* VSCodeAPIWrapper.getState
getState(key, clock, random) ==
    IF vsCodeApi
    THEN /\ invoke("getState", TRUE, <<key>>, Undefined, clock, random)
         /\ UNCHANGED localStorage
    ELSE LET state == localStorage[key]
             value == IF Truthy(state) THEN JsonParse(state) ELSE Undefined
         IN /\ calls' = Append(calls,
                   IF value = "#SyntaxError"
                   THEN Call("getState", TRUE, <<key>>, Undefined, Undefined, 0,
                             "rejected", value)
                   ELSE Call("getState", TRUE, <<key>>, Undefined, Undefined, 0,
                             "resolved", value))
            /\ UNCHANGED <<listeners, sent, toHost, consoleLog, localStorage, now>>

\* VSCodeAPIWrapper.setState
setState(key, newState, clock, random) ==
    IF vsCodeApi
    THEN /\ invoke("setState", TRUE, <<key, newState>>, Undefined, clock, random)
         /\ UNCHANGED localStorage
    ELSE /\ localStorage' = SetItem(key, JsonStringify(newState))
         /\ calls' = Append(calls, Call("setState", TRUE, <<key, newState>>,
                                        Undefined, Undefined, 0, "resolved",
                                        Undefined))
         /\ UNCHANGED <<listeners, sent, toHost, consoleLog, now>>

GetState(key, clock, random) ==
    /\ CanCall /\ clock >= now
    /\ getState(key, clock, random)
    /\ UNCHANGED <<loaded, acquireVsCodeApi, vsCodeApi, toWebview, hostVars>>

SetState(key, newState, clock, random) ==
    /\ CanCall /\ clock >= now
    /\ setState(key, newState, clock, random)
    /\ UNCHANGED <<loaded, acquireVsCodeApi, vsCodeApi, toWebview, hostVars>>

\* the page's script runs inside a live panel: new VSCodeAPIWrapper()
LoadPage ==
    /\ ~loaded
    /\ \E p \in 1..Len(panels) : ~panels[p].disposed
    /\ loaded' = TRUE
    /\ vsCodeApi' = acquireVsCodeApi
    /\ calls' = <<>>
    /\ listeners' = {}
    /\ UNCHANGED <<acquireVsCodeApi, consoleLog, localStorage, sent, now, toHost,
                   toWebview, hostVars>>

\* ------------------------------------------------------- the extension side
\* a slip in the registry: a name that is taken keeps its first handler
MapSetKeepsFirst(m, key, value) ==
    IF key \in DOMAIN m THEN m
    ELSE [k \in DOMAIN m \cup {key} |-> IF k = key THEN value ELSE m[k]]

\* Map.prototype.set: a later set of the same key replaces the binding
MapSet(m, key, value) ==
    [k \in DOMAIN m \cup {key} |-> IF k = key THEN value ELSE m[k]]

EmptyMap == [k \in {} |-> Undefined]

\* the registry _setWebviewMessageListener builds, in the order of its map.set calls
map ==
    MapSet(MapSet(MapSet(EmptyMap, "hello", "helloHandler"),
                  "selectPath", "selectPathHandler"),
           "createProject", "createProjectHandler")

\* a slip in the dispatcher: the test for an unknown command is left out
MapHasUnchecked(command) == TRUE

\* a slip in the dispatcher: the lookup ignores the command
MapGetFirst(command) ==
    IF command \in DOMAIN registry THEN registry["hello"] ELSE Undefined

\* map.has(command), and map.get(command): undefined for a missing key
MapHas(command) == command \in DOMAIN registry
MapGet(command) ==
    IF command \in DOMAIN registry THEN registry[command] ELSE Undefined

\* a slip in the dispatcher: the test is  callback !== undefined
HasCallbackDefined(callback) == callback # Undefined

\* the dispatcher's test  if (callback)
HasCallback(callback) == Truthy(callback)

\* { command: callback, data: [res] }
Response(callback, res, req) == Message(callback, TRUE, <<res>>, Undefined, req)

\* one run of the onDidReceiveMessage callback: the destructured message, the
\* handler it called and with what, where it is suspended, what the handler
\* returned, and how many messages it posted back.  answer is createProject's
\* local of that name: what the prompt resolved to, "#unasked" before it did
Job(req, command, data, callback, panel, handler, args, runs, pc, res, posted, error) ==
    [req |-> req, command |-> command, data |-> data, callback |-> callback,
     panel |-> panel, handler |-> handler, args |-> args, runs |-> runs,
     pc |-> pc, res |-> res, posted |-> posted, error |-> error,
     answer |-> "#unasked"]

\* a CreateProjectPanel: its WebviewPanel and its _disposables
Panel == [disposed |-> FALSE,
          _disposables |-> <<"onDidDispose", "onDidReceiveMessage">>]

LivePanels == {p \in 1..Len(panels) : ~panels[p].disposed}

\* webview.postMessage through this._panel: the webview getter of a disposed
\* panel throws, so nothing is posted
PanelPost(ps, p, queue, message) ==
    IF ps[p].disposed THEN queue ELSE Append(queue, message)

\* a slip in the dispatcher: the callback is kept in one place shared by all
\* runs, so a run that resumes answers with the callback received last
RespondToLatest(ps, job, res, queue) ==
    LET latest == IF \E j \in 1..Len(jobs) : jobs[j].req = job.req
                  THEN jobs[Len(jobs)] ELSE job
    IN  IF Truthy(latest.callback)
        THEN PanelPost(ps, job.panel, queue, Response(latest.callback, res, job.req))
        ELSE queue

\* the dispatcher's steps after  await handler(...)  returned res to the run
\* job, with the panels as they are at that moment
Respond(ps, job, res, queue) ==
    IF HasCallback(job.callback)
    THEN PanelPost(ps, job.panel, queue, Response(job.callback, res, job.req))
    ELSE queue

Finished(ps, job, res, queue) ==
    [job EXCEPT !.pc = "done", !.res = res,
                !.posted = Len(Respond(ps, job, res, queue)) - Len(queue)]

\* const { command, data = [], callback } = message
Data(message) == IF message.hasData THEN message.data ELSE <<>>

\* handler(...data)
Spread(data) == data

\* the synchronous start of each handler: the pc it suspends at.  hello runs
\* to its end; createProject throws a TypeError on data without a location,
\* and so does calling what is no function
HandlerStart(handler, data) ==
    CASE handler = "helloHandler" -> "done"
      [] handler = "selectPathHandler" -> "showOpenDialog"
      [] handler = "createProjectHandler" ->
            IF Len(data) >= 1 /\ Location(data[1]) # Undefined
            THEN "pathExists" ELSE "threw"
      [] OTHER -> "threw"

\* the error a run of the callback ends with, if it ends with one
Thrown(pc) == IF pc = "threw" THEN "TypeError" ELSE Undefined

\* new Error(`... ${command}`): the error names the command
CommandNotFound(command) == "Error: " \o command

\* WebviewPanel.dispose(), which fires onDidDispose: the listener is
\* this.dispose called without a this, so it clears currentPanel and then
\* throws on this._panel.  The webview and its page are destroyed.
DisposedPanels(p) == [panels EXCEPT ![p].disposed = TRUE]

\* a slip in dispose: the reference to the current panel is not cleared
DisposePanelKeepsCurrent(p) ==
    IF panels[p].disposed
    THEN UNCHANGED <<currentPanel, loaded, toHost>>
    ELSE /\ UNCHANGED currentPanel
         /\ loaded' = FALSE
         /\ toHost' = <<>>

DisposePanel(p) ==
    IF panels[p].disposed
    THEN UNCHANGED <<currentPanel, loaded, toHost>>
    ELSE /\ currentPanel' = 0
         /\ loaded' = FALSE
         /\ toHost' = <<>>

\* CreateProjectPanel.render
Render ==
    /\ acquireVsCodeApi
    /\ IF currentPanel # 0
       THEN \* reveal(ViewColumn.One): the panel comes to the front
            UNCHANGED <<panels, currentPanel, toWebview>>
       ELSE /\ Len(panels) < MaxPanels
            /\ panels' = Append(panels, Panel)
            /\ currentPanel' = Len(panels) + 1
            /\ toWebview' = Append(toWebview,
                                   Message("hello", TRUE, <<"world">>, Undefined, 0))
    /\ UNCHANGED <<pageVars, now, toHost, jobs, removed, terminals, regVars>>

\* the user closes the panel
ClosePanel ==
    \E p \in LivePanels :
        /\ panels' = DisposedPanels(p)
        /\ DisposePanel(p)
        /\ toWebview' = <<>>
        /\ UNCHANGED <<acquireVsCodeApi, vsCodeApi, calls, listeners, consoleLog,
                       localStorage, sent, now, jobs, removed, terminals,
                       regVars>>

\* the onDidReceiveMessage callback up to its first suspension
OnDidReceiveMessage ==
    /\ toHost # <<>>
    /\ \E p \in LivePanels :
         LET message == JsonMessage(Head(toHost))
             command == message.command
             data == Data(message)
             callback == message.callback
         IN  IF ~MapHas(command)
             THEN \* throw new Error(`... ${command}`)
                  /\ jobs' = Append(jobs, Job(message.req, command, data, callback,
                                 p, Undefined, <<>>, 0, "error", Undefined, 0,
                                 CommandNotFound(command)))
                  /\ UNCHANGED toWebview
             ELSE LET handler == MapGet(command)
                      pc == HandlerStart(handler, Spread(data))
                      job == Job(message.req, command, data, callback, p, handler,
                                 Spread(data), 1, pc, Undefined, 0, Thrown(pc))
                  IN  IF job.pc = "done"
                      THEN /\ jobs' = Append(jobs, Finished(panels, job, Undefined,
                                                            toWebview))
                           /\ toWebview' = Respond(panels, job, Undefined, toWebview)
                      ELSE /\ jobs' = Append(jobs, job)
                           /\ UNCHANGED toWebview
    /\ toHost' = Tail(toHost)
    /\ UNCHANGED <<pageVars, now, currentPanel, panels, removed, terminals,
                   regVars>>

\* Uri.parse(path).fsPath on the platform of the hard-wired shellPath (Windows)
FsPath(path) == IF path = "/c:/work" THEN "c:\\work" ELSE path

\* selectPath resumes: showOpenDialog resolved to undefined or to [uri]
OpenDialogResult(j, path) ==
    /\ jobs[j].pc = "showOpenDialog"
    /\ LET res == IF ~Truthy(path) THEN Null ELSE FsPath(path) IN
       /\ jobs' = [jobs EXCEPT ![j] = Finished(panels, jobs[j], res, toWebview)]
       /\ toWebview' = Respond(panels, jobs[j], res, toWebview)
    /\ UNCHANGED <<pageVars, now, toHost, currentPanel, panels, removed, terminals,
                   regVars>>

\* createProject: window.createTerminal(...), terminal.show(), then it waits
\* for onDidCloseTerminal
CreateTerminal(j) ==
    /\ terminals' = terminals \cup {j}
    /\ jobs' = [jobs EXCEPT ![j].pc = "waitClose"]

\* createProject resumes: pathExists(location) resolved to exists
PathExistsDone(j, exists) ==
    /\ jobs[j].pc = "pathExists"
    /\ IF exists
       THEN /\ jobs' = [jobs EXCEPT ![j].pc = "readdir"]
            /\ UNCHANGED terminals
       ELSE CreateTerminal(j)
    /\ UNCHANGED <<pageVars, now, toHost, toWebview, currentPanel, panels, removed,
                   regVars>>

\* createProject resumes: readdir(location) resolved to a list of this length
ReaddirDone(j, length) ==
    /\ jobs[j].pc = "readdir"
    /\ IF length > 0
       THEN /\ jobs' = [jobs EXCEPT ![j].pc = "prompt"]
            /\ UNCHANGED terminals
       ELSE CreateTerminal(j)
    /\ UNCHANGED <<pageVars, now, toHost, toWebview, currentPanel, panels, removed,
                   regVars>>

\* createProject resumes: the 'Project already exists' prompt resolved to the
\* chosen item or to undefined
PromptAnswered(j, answer) ==
    /\ jobs[j].pc = "prompt"
    /\ LET job == [jobs[j] EXCEPT !.answer = answer] IN
       IF ~Truthy(answer)
       THEN /\ jobs' = [jobs EXCEPT ![j] = Finished(panels, job, Undefined,
                                                    toWebview)]
            /\ toWebview' = Respond(panels, job, Undefined, toWebview)
       ELSE /\ jobs' = [jobs EXCEPT ![j] = [job EXCEPT !.pc = "remove"]]
            /\ UNCHANGED toWebview
    /\ UNCHANGED <<pageVars, now, toHost, currentPanel, panels, removed, terminals,
                   regVars>>

\* createProject resumes: remove(location) resolved
RemoveDone(j) ==
    /\ jobs[j].pc = "remove"
    /\ removed' = Append(removed, Location(jobs[j].args[1]))
    /\ CreateTerminal(j)
    /\ UNCHANGED <<pageVars, now, toHost, toWebview, currentPanel, panels,
                   regVars>>

\* a 'Create Project' terminal closes: every onDidCloseTerminal listener sees
\* e.name === 'Create Project' and resolves, and each waiting createProject
\* goes on to  executeCommand('vscode.openFolder', ...)
TerminalClosed(t) ==
    /\ t \in terminals
    /\ terminals' = terminals \ {t}
    /\ jobs' = [j \in 1..Len(jobs) |->
                   IF jobs[j].pc = "waitClose"
                   THEN [jobs[j] EXCEPT !.pc = "openFolder"] ELSE jobs[j]]
    /\ UNCHANGED <<pageVars, now, toHost, toWebview, currentPanel, panels, removed,
                   regVars>>

\* createProject resumes: openFolder resolved; this._panel.dispose(); the
\* handler returns undefined and the dispatcher goes on to its response
OpenFolderDone(j) ==
    /\ jobs[j].pc = "openFolder"
    /\ LET p == jobs[j].panel
           ps == DisposedPanels(p)
           queue == IF panels[p].disposed THEN toWebview ELSE <<>>
       IN /\ panels' = ps
          /\ DisposePanel(p)
          /\ jobs' = [jobs EXCEPT ![j] = Finished(ps, jobs[j], Undefined, queue)]
          /\ toWebview' = Respond(ps, jobs[j], Undefined, queue)
    /\ UNCHANGED <<acquireVsCodeApi, vsCodeApi, calls, listeners, consoleLog,
                   localStorage, sent, now, removed, terminals, regVars>>

\* ------------------------------------------------------------ specification
\* the page, the transport and the panels before anything has happened
Start ==
    /\ acquireVsCodeApi \in BOOLEAN
    /\ loaded = ~acquireVsCodeApi
    /\ vsCodeApi = FALSE
    /\ calls = <<>>
    /\ listeners = {}
    /\ consoleLog = <<>>
    /\ localStorage = [k \in Keys |-> Null]
    /\ sent = 0
    /\ now = 0
    /\ toHost = <<>>
    /\ toWebview = <<>>
    /\ currentPanel = 0
    /\ panels = <<>>
    /\ jobs = <<>>
    /\ removed = <<>>
    /\ terminals = {}

\* the registry as _setWebviewMessageListener leaves it
Init ==
    /\ Start
    /\ registry = map
    /\ registered = <<<<"hello", "helloHandler">>,
                      <<"selectPath", "selectPathHandler">>,
                      <<"createProject", "createProjectHandler">>>>
    /\ dispatched = <<>>

Next ==
    \/ \E r \in Requests, clock \in Clock, random \in RandomValues :
          CallInvoke(r[1], r[2], r[3], r[4], clock, random)
    \/ \E r \in PostRequests, callback \in {Undefined, EmptyString} :
          PagePostMessage(r[1], r[2], r[3], callback)
    \/ \E key \in Keys, clock \in Clock, random \in RandomValues :
          GetState(key, clock, random)
    \/ \E key \in Keys, newState \in StateValues, clock \in Clock,
          random \in RandomValues : SetState(key, newState, clock, random)
    \/ OnMessage
    \/ LoadPage
    \/ Render
    \/ ClosePanel
    \/ OnDidReceiveMessage
    \/ \E j \in 1..Len(jobs), path \in DialogPaths \cup {Undefined} :
          OpenDialogResult(j, path)
    \/ \E j \in 1..Len(jobs), exists \in BOOLEAN : PathExistsDone(j, exists)
    \/ \E j \in 1..Len(jobs), length \in {0, 1} : ReaddirDone(j, length)
    \/ \E j \in 1..Len(jobs), answer \in Answers : PromptAnswered(j, answer)
    \/ \E j \in 1..Len(jobs) : RemoveDone(j)
    \/ \E t \in 1..Len(jobs) : TerminalClosed(t)
    \/ \E j \in 1..Len(jobs) : OpenFolderDone(j)

Spec == Init /\ [][Next]_vars

\* ------------------------------------------- the registry, from any map.set
\* the handler functions and the names they can be registered under
Handlers == {"helloHandler", "selectPathHandler", "createProjectHandler"}
Names == {"hello", "selectPath"}

\* map.set(command, handler)
Register(command, handler) ==
    /\ Len(registered) < MaxRegistrations
    /\ registry' = MapSet(registry, command, handler)
    /\ registered' = Append(registered, <<command, handler>>)
    /\ UNCHANGED <<pageVars, now, toHost, toWebview, currentPanel, panels, jobs,
                   removed, terminals, dispatched>>

\* the dispatcher's lookup for one message: map.has(command), then the call
\* of map.get(command); after is the number of map.set calls made before it
Dispatch(command) ==
    /\ Len(dispatched) < MaxDispatches
    /\ dispatched' = Append(dispatched,
           [command |-> command, after |-> Len(registered),
            called |-> IF MapHas(command) THEN {MapGet(command)} ELSE {}])
    /\ UNCHANGED <<pageVars, now, toHost, toWebview, currentPanel, panels, jobs,
                   removed, terminals, registry, registered>>

\* const map = new Map()
RegistryInit ==
    /\ Start
    /\ registry = EmptyMap
    /\ registered = <<>>
    /\ dispatched = <<>>

RegistryNext ==
    \/ \E command \in Names, handler \in Handlers : Register(command, handler)
    \/ \E command \in Names : Dispatch(command)

RegistrySpec == RegistryInit /\ [][RegistryNext]_vars

\* ------------------------------------------------------------------- claims
\* what the source registers: map.set('hello' ...), map.set('selectPath' ...),
\* map.set('createProject' ...)
RegisteredCommands == {"hello", "selectPath", "createProject"}

RegisteredHandler ==
    [c \in RegisteredCommands |->
        CASE c = "hello" -> "helloHandler"
          [] c = "selectPath" -> "selectPathHandler"
          [] c = "createProject" -> "createProjectHandler"]

\* call i went through the host channel
RoundTrip(i) == calls[i].req # 0

\* the step delivers the message at the head of toWebview to the page
Delivers ==
    /\ loaded /\ loaded'
    /\ toWebview # <<>>
    /\ toWebview' = Tail(toWebview)

\* the step is the dispatcher receiving the message at the head of toHost
Receives ==
    /\ toHost # <<>>
    /\ toHost' = Tail(toHost)
    /\ Len(jobs') = Len(jobs) + 1

\* the run of the callback for job j has come to its end in this step
Ends(j) == jobs'[j].pc = "done" /\ (j > Len(jobs) \/ jobs[j].pc # "done")

\* C1: round trip.  Every call that went through the host channel and has
\* resolved holds the value that the handler run for its own request returned,
\* as JSON carries it, and that run has finished.
C1_RoundTripValue ==
    \A i \in 1..Len(calls) :
        (RoundTrip(i) /\ calls[i].status = "resolved") =>
            \E j \in 1..Len(jobs) :
                /\ jobs[j].req = calls[i].req
                /\ jobs[j].command \in RegisteredCommands
                /\ jobs[j].pc = "done"
                /\ calls[i].value = JsonElement(jobs[j].res)

\* C2: a request {command: c, data: a, callback: t} with a registered c and a
\* token t has its handler called with exactly a, and in the step in which
\* the handler returns its result the message {command: t, data: [result]} is
\* posted back (stated for the runs whose panel is still open when the
\* handler takes that last step).
C2_ResultPostedBack ==
    [][\A j \in 1..Len(jobs') :
          (jobs'[j].command \in RegisteredCommands /\ Truthy(jobs'[j].callback)) =>
              /\ jobs'[j].handler = RegisteredHandler[jobs'[j].command]
              /\ jobs'[j].args = jobs'[j].data
              /\ (Ends(j) /\ ~panels[jobs'[j].panel].disposed) =>
                    toWebview' = Append(toWebview,
                        Message(jobs'[j].callback, TRUE, <<jobs'[j].res>>,
                                Undefined, jobs'[j].req))
      ]_vars

\* C3: a message whose command has no registered handler makes the dispatcher
\* raise an error that names the command; no handler runs and nothing is
\* posted back, with or without a callback token; the runs of the callback
\* for later messages with a registered command still call their handler.
C3_UnknownCommandRejected ==
    [][/\ (Receives /\ Head(toHost).command \notin RegisteredCommands) =>
            LET job == jobs'[Len(jobs')] IN
            /\ job.pc = "error"
            /\ job.error = "Error: " \o Head(toHost).command
            /\ job.runs = 0 /\ job.handler = Undefined /\ job.posted = 0
            /\ toWebview' = toWebview
            /\ \A j \in 1..Len(jobs) : jobs'[j] = jobs[j]
       /\ \A j \in 1..Len(jobs) :
            (jobs[j].pc = "error") =>
                /\ jobs'[j] = jobs[j]
                /\ \A k \in (j + 1)..Len(jobs') :
                      (jobs'[k].command \in RegisteredCommands) => jobs'[k].runs = 1
      ]_vars

\* C3 witness: an unknown command was rejected and a later request was
\* handled and answered
C3_Witness ==
    /\ Len(jobs) = 2
    /\ jobs[1].pc = "error" /\ Truthy(jobs[1].callback)
    /\ jobs[2].pc = "done" /\ jobs[2].runs = 1 /\ jobs[2].posted = 1

\* C4: a getState or setState request that reaches the dispatcher is handled
\* by a registered handler, so that its call can resolve with the handler's
\* value: the dispatcher does not reject it.
C4_StateRequestHandled ==
    \A j \in 1..Len(jobs) :
        (jobs[j].command \in {"getState", "setState"}) =>
            /\ jobs[j].pc # "error"
            /\ jobs[j].runs = 1

\* C5: a pending call is settled only by the delivery of a message whose
\* command is its own token; the delivery of any other message (another
\* call's response, the host's 'hello') leaves it pending with its listener
\* attached.
C5_SettledOnlyByOwnToken ==
    [][loaded =>
        \A i \in 1..Len(calls) :
            (RoundTrip(i) /\ calls[i].status = "pending" /\ i \in listeners) =>
                /\ i <= Len(calls')
                /\ (calls'[i].status # "pending") =>
                      (Delivers /\ Head(toWebview).command = calls[i].token)
                /\ (Delivers /\ Head(toWebview).command # calls[i].token) =>
                      (calls'[i] = calls[i] /\ i \in listeners')
      ]_vars

\* C5 witness: the call issued second has resolved while the call issued
\* first, under another token, is still pending with its listener attached
C5_Witness ==
    /\ loaded /\ Len(calls) = 2
    /\ calls[1].status = "pending" /\ 1 \in listeners
    /\ calls[2].status = "resolved" /\ RoundTrip(2)
    /\ calls[1].token # calls[2].token

\* C6: no two pending waiters share a correlation token.
C6_PendingTokensDistinct ==
    \A i, k \in 1..Len(calls) :
        (i # k /\ RoundTrip(i) /\ RoundTrip(k)
           /\ calls[i].status = "pending" /\ calls[k].status = "pending")
        => calls[i].token # calls[k].token

\* C7: without a host channel invoke resolves at once with the caller's
\* default, posts nothing (neither to the channel nor to the console) and
\* attaches no listener.
C7_NoChannelDefault ==
    [][(/\ ~acquireVsCodeApi
        /\ Len(calls') = Len(calls) + 1
        /\ calls'[Len(calls')].command \notin {"getState", "setState"}) =>
            LET call == calls'[Len(calls')] IN
            /\ call.status = "resolved"
            /\ call.value = call.default
            /\ UNCHANGED <<toHost, consoleLog, listeners, sent>>
      ]_vars

\* C7 witness: a call without a host channel has resolved with its default
C7_Witness ==
    /\ ~acquireVsCodeApi
    /\ Len(calls) >= 1
    /\ calls[1].command = "hello" /\ calls[1].default = "fallback"
    /\ calls[1].status = "resolved" /\ calls[1].value = "fallback"
    /\ consoleLog = <<>> /\ toHost = <<>> /\ listeners = {}

\* C8: a waiter's listener is attached from the moment the call is issued, is
\* attached exactly as long as the call is pending, and is detached in exactly
\* the steps that deliver a message whose command is its token: nothing else
\* settles the call or removes the listener.
C8_ListenerLifecycle ==
    [][loaded =>
        /\ \A i \in 1..Len(calls') :
              (calls'[i].req # 0) => (i \in listeners' <=> calls'[i].status = "pending")
        /\ \A i \in listeners :
              (i \notin listeners') <=>
                  (Delivers /\ Head(toWebview).command = calls[i].token)
      ]_vars

\* C8 witness: one call whose response can never come (its command was
\* rejected) is pending with its listener attached, another has been settled
\* and its listener is detached
C8_Witness ==
    /\ loaded /\ Len(calls) = 2
    /\ calls[1].status = "pending" /\ 1 \in listeners
    /\ \E j \in 1..Len(jobs) : jobs[j].req = calls[1].req /\ jobs[j].pc = "error"
    /\ calls[2].status = "resolved" /\ RoundTrip(2) /\ 2 \notin listeners

\* C9: every message with a registered command that the dispatcher receives
\* gets one run of the callback, which calls the handler registered for that
\* command once; the handler is not called again when the run resumes.
C9_HandlerOncePerMessage ==
    [][/\ (toHost # <<>> /\ toHost' = Tail(toHost) /\ panels' = panels) =>
            /\ Len(jobs') = Len(jobs) + 1
            /\ jobs'[Len(jobs')].req = Head(toHost).req
       /\ Len(jobs') >= Len(jobs)
       /\ \A j \in 1..Len(jobs') :
            /\ (jobs'[j].command \in RegisteredCommands) =>
                  /\ jobs'[j].runs = 1
                  /\ jobs'[j].handler = RegisteredHandler[jobs'[j].command]
            /\ j <= Len(jobs) =>
                  /\ jobs'[j].runs = jobs[j].runs
                  /\ jobs'[j].handler = jobs[j].handler
                  /\ jobs'[j].req = jobs[j].req
      ]_vars

\* C9 witness: two requests for different registered commands have each had
\* their own handler run once, one of them past a suspension
C9_Witness ==
    /\ Len(jobs) = 2
    /\ jobs[1].command = "selectPath" /\ jobs[1].pc = "done" /\ jobs[1].runs = 1
    /\ jobs[2].command = "createProject" /\ jobs[2].pc = "waitClose"
    /\ jobs[2].runs = 1

\* C10: a response is posted only by a run whose message carried a non-empty
\* callback, and it is addressed to that callback; a message with a missing
\* or empty callback has its handler run and nothing posted back; no run
\* posts more than one response.
C10_ResponseOnlyWithCallback ==
    [][/\ \A j \in 1..Len(jobs') :
            /\ jobs'[j].posted <= 1
            /\ (jobs'[j].posted = 1) => jobs'[j].callback \notin {Undefined, EmptyString}
            /\ (jobs'[j].callback \in {Undefined, EmptyString}
                  /\ jobs'[j].command \in RegisteredCommands) =>
                  (jobs'[j].runs = 1 /\ jobs'[j].posted = 0)
       /\ (Len(toWebview') > Len(toWebview) /\ Len(panels') = Len(panels)) =>
            \E j \in 1..Len(jobs') :
                /\ Ends(j)
                /\ jobs'[j].callback \notin {Undefined, EmptyString}
                /\ toWebview' = Append(toWebview,
                       Message(jobs'[j].callback, TRUE, <<jobs'[j].res>>, Undefined,
                               jobs'[j].req))
      ]_vars

\* C10 witness: a message with an empty callback had its handler run to the
\* end and nothing was posted back, while one with a token was answered
C10_Witness ==
    /\ Len(jobs) = 2
    /\ jobs[1].callback = EmptyString /\ jobs[1].command = "selectPath"
    /\ jobs[1].pc = "done" /\ jobs[1].runs = 1 /\ jobs[1].posted = 0
    /\ jobs[2].callback \notin {Undefined, EmptyString} /\ jobs[2].posted = 1

\* the panel currentPanel refers to is the one open panel, if there is one
OnePanel ==
    /\ Cardinality(LivePanels) <= 1
    /\ currentPanel = 0 <=> LivePanels = {}
    /\ currentPanel # 0 => LivePanels = {currentPanel}

\* C11: at most one panel is open at any time and currentPanel refers to it;
\* while currentPanel is set no step creates a panel; a step that creates a
\* panel creates exactly one, starts from no current panel and records the
\* new panel in currentPanel; a step that closes a panel, whether the user
\* closes it or createProject disposes it, leaves currentPanel unset.
C11_SinglePanel ==
    [][/\ OnePanel /\ OnePanel'
       /\ currentPanel # 0 => Len(panels') = Len(panels)
       /\ Len(panels') # Len(panels) =>
            /\ currentPanel = 0
            /\ Len(panels') = Len(panels) + 1
            /\ currentPanel' = Len(panels')
            /\ ~panels'[Len(panels')].disposed
            /\ \A p \in 1..Len(panels) : panels'[p] = panels[p]
       /\ \A p \in LivePanels : panels'[p].disposed => currentPanel' = 0
      ]_vars

\* C11 witness: the first panel was disposed by its own createProject run, a
\* render after that created the second panel, which is the current one
C11_Witness ==
    /\ Len(panels) = 2 /\ panels[1].disposed /\ ~panels[2].disposed
    /\ currentPanel = 2
    /\ \E j \in 1..Len(jobs) :
          /\ jobs[j].command = "createProject" /\ jobs[j].panel = 1
          /\ jobs[j].pc = "done" /\ jobs[j].args = <<ProjectA>>

\* C12: once a panel is closed its resources are released: the dispose
\* routine has disposed every entry of _disposables (the inbound message
\* listener among them) and _disposables is empty.
C12_DisposablesReleased ==
    \A p \in 1..Len(panels) :
        panels[p].disposed => panels[p]._disposables = <<>>

\* what the setState calls before call i last stored under the key of call i
\* (undefined when there was none)
LastSet(i) ==
    LET key == calls[i].args[1]
        sets == {j \in 1..(i - 1) :
                    calls[j].command = "setState" /\ calls[j].args[1] = key}
    IN  IF sets = {} THEN Undefined
        ELSE calls[CHOOSE j \in sets : \A k \in sets : k <= j].args[2]

\* C13: without a host channel, getState(k) resolves with undefined when
\* nothing was set for k and otherwise with the value of the last
\* setState(k, v), for every v (0, "", false and null among them); setState(k,
\* v) leaves the other keys of the store as they were, getState leaves the
\* whole store as it was, and neither posts a message, writes to the console
\* or attaches a listener.
C13_FallbackState ==
    [][~acquireVsCodeApi =>
        /\ \A i \in 1..Len(calls') :
              (calls'[i].command = "getState") =>
                  /\ calls'[i].status = "resolved"
                  /\ calls'[i].value = LastSet(i)'
        /\ (Len(calls') = Len(calls) + 1) =>
              LET call == calls'[Len(calls')] IN
              /\ (call.command \in {"getState", "setState"}) =>
                    UNCHANGED <<sent, toHost, consoleLog, listeners>>
              /\ (call.command = "getState") => UNCHANGED localStorage
              /\ (call.command = "setState") =>
                    /\ call.status = "resolved"
                    /\ \A k \in Keys \ {call.args[1]} :
                          localStorage'[k] = localStorage[k]
      ]_vars

\* C13 witness: 0 was stored under one key and read back as 0, with nothing
\* posted and the other key still unset
C13_Witness ==
    /\ ~acquireVsCodeApi /\ Len(calls) = 2
    /\ calls[1].command = "setState" /\ calls[1].args = <<"theme", Zero>>
    /\ calls[2].command = "getState" /\ calls[2].args = <<"theme">>
    /\ calls[2].status = "resolved" /\ calls[2].value = Zero
    /\ localStorage["lang"] = Null
    /\ sent = 0 /\ consoleLog = <<>>

\* the map.set calls for command among the first n
RegistrationsOf(command, n) == {r \in 1..n : registered[r][1] = command}

\* C14: a map.set under a name that is taken replaces the binding and raises
\* nothing: every dispatch of a command calls exactly one handler, the one of
\* the latest map.set for that command before the dispatch, and calls none
\* only when the command was never registered.
C14_LastRegistrationWins ==
    \A d \in 1..Len(dispatched) :
        LET sets == RegistrationsOf(dispatched[d].command, dispatched[d].after)
        IN  IF sets = {} THEN dispatched[d].called = {}
            ELSE LET last == CHOOSE r \in sets : \A q \in sets : q <= r
                 IN  dispatched[d].called = {registered[last][2]}

\* C14 witness: 'hello' was registered twice with different handlers, a
\* dispatch between the two called the first and one after them the second
C14_Witness ==
    /\ Len(registered) = 2 /\ Len(dispatched) = 2
    /\ registered[1] = <<"hello", "helloHandler">>
    /\ registered[2] = <<"hello", "selectPathHandler">>
    /\ dispatched[1].command = "hello" /\ dispatched[1].after = 1
    /\ dispatched[1].called = {"helloHandler"}
    /\ dispatched[2].command = "hello" /\ dispatched[2].after = 2
    /\ dispatched[2].called = {"selectPathHandler"}

\* C15: runs of the callback are not serialized, yet every response is paired
\* with its own request: a run keeps the command, data, callback and request
\* it received for as long as it lives, whatever other runs do meanwhile; a
\* response is posted only in the step in which some run's handler returns,
\* and it carries that run's callback, that run's result and nothing else;
\* and the call the page made for that request holds the same token.
C15_ResponsePairedWithOwnRequest ==
    [][/\ Receives =>
            LET job == jobs'[Len(jobs')]
                message == JsonMessage(Head(toHost))
            IN  /\ job.req = message.req /\ job.callback = message.callback
                /\ job.command = message.command /\ job.data = Data(message)
       /\ \A j \in 1..Len(jobs) :
            /\ j <= Len(jobs')
            /\ jobs'[j].req = jobs[j].req /\ jobs'[j].callback = jobs[j].callback
            /\ jobs'[j].command = jobs[j].command /\ jobs'[j].args = jobs[j].args
            /\ (jobs[j].pc = "done") => jobs'[j] = jobs[j]
       /\ (toWebview' # toWebview /\ toWebview' # <<>> /\ Len(panels') = Len(panels)
             /\ ~Delivers) =>
            \E j \in 1..Len(jobs') :
                LET response == toWebview'[Len(toWebview')] IN
                /\ Ends(j) /\ jobs'[j].posted = 1
                /\ toWebview' = Append(toWebview, response)
                /\ response.command = jobs'[j].callback
                /\ response.data = <<jobs'[j].res>>
                /\ response.req = jobs'[j].req
                /\ \A k \in 1..Len(jobs') : k # j => ~Ends(k)
                /\ loaded => \A i \in 1..Len(calls) :
                      (calls[i].req = jobs'[j].req) =>
                          response.command = calls[i].token
      ]_vars

\* C15 witness: two selectPath requests arrived one after the other, both
\* handlers were suspended at once, and the second was answered first: the
\* responses wait in the reverse of the arrival order, each under its own token
C15_Witness ==
    /\ Len(jobs) = 2 /\ Len(toWebview) = 2
    /\ jobs[1].command = "selectPath" /\ jobs[2].command = "selectPath"
    /\ jobs[1].pc = "done" /\ jobs[2].pc = "done"
    /\ jobs[1].callback # jobs[2].callback
    /\ jobs[1].res # jobs[2].res
    /\ toWebview[1] = Response(jobs[2].callback, jobs[2].res, jobs[2].req)
    /\ toWebview[2] = Response(jobs[1].callback, jobs[1].res, jobs[1].req)

\* C16: the listener of a call is attached before its request is posted, so
\* whenever a response (a message answering a request of the page) is
\* delivered to the page, a listener for the token it carries is attached.
C16_ResponseFindsListener ==
    [][(Delivers /\ Head(toWebview).req # 0) =>
          \E i \in listeners : calls[i].token = Head(toWebview).command
      ]_vars

\* the run of the callback for job j ended with an error raised by its handler
HandlerRaised(j) == jobs[j].runs = 1 /\ jobs[j].error # Undefined

\* C17: when the handler of a request that carried a callback token raises,
\* the dispatcher posts nothing for that request, neither a result nor an
\* error, and the call the page made for it stays pending from then on.
C17_RaisedLeavesCallPending ==
    [][\A j \in 1..Len(jobs) :
          (HandlerRaised(j) /\ Truthy(jobs[j].callback)) =>
              /\ jobs[j].posted = 0 /\ jobs'[j] = jobs[j]
              /\ \A n \in 1..Len(toWebview') : toWebview'[n].req # jobs[j].req
              /\ (loaded /\ loaded') =>
                    \A i \in 1..Len(calls) :
                        (calls[i].req = jobs[j].req) =>
                            /\ calls[i].status = "pending"
                            /\ calls'[i].status = "pending"
      ]_vars

\* C18: a createProject run goes on to open its folder and dispose the panel
\* only when the terminal created for that same run has closed: a run leaves
\* its wait only in a step that closes its own terminal, so the close of
\* another run's terminal does not let it proceed.
C18_WaitsForOwnTerminal ==
    [][\A j \in 1..Len(jobs) :
          (jobs[j].pc = "waitClose" /\ jobs'[j].pc # "waitClose") =>
              (j \in terminals /\ j \notin terminals')
      ]_vars

\* C19: when the location exists and is not empty, createProject removes the
\* directory and creates a terminal only on the answer 'Yes'; on 'No' or a
\* dismissed prompt the run has returned: nothing removed by it, no terminal,
\* no folder opened.
C19_OnlyYesRemoves ==
    [][\A j \in 1..Len(jobs') :
          (jobs'[j].answer \notin {"#unasked", "Yes"}) =>
              /\ jobs'[j].pc = "done"
              /\ j \notin terminals'
              /\ (j <= Len(jobs) /\ jobs[j].pc = "prompt") => removed' = removed
              /\ (j <= Len(jobs) /\ jobs[j].pc # "prompt") => jobs'[j] = jobs[j]
      ]_vars

\* C20: the dispatcher posts a response only to a panel whose webview is
\* alive: when the handler of a request that carried a callback token returns
\* (createProject among them, stated for the runs whose panel is open when
\* the handler takes its last step), the panel is not disposed at the moment
\* the dispatcher posts, and the response is posted.
C20_ResponseToLivePanel ==
    [][\A j \in 1..Len(jobs') :
          (Ends(j) /\ Truthy(jobs'[j].callback)
             /\ ~panels[jobs'[j].panel].disposed) =>
              /\ ~panels'[jobs'[j].panel].disposed
              /\ jobs'[j].posted = 1
      ]_vars

=============================================================================
